---- MODULE Spec2Model ----
(***************************************************************************)
(* A model of the Indeed.de manual job scraper: the URL builder of         *)
(* src/src/utils.py, the page probes and record extraction of              *)
(* src/src/manual_scraper.py, and the control flow of src/src/main.py.     *)
(* Text is modelled as a sequence of one-character strings.                *)
(***************************************************************************)
EXTENDS Integers, Sequences, FiniteSets, TLC

VARIABLES
    pc,           \* position of the running program
    args,         \* arguments of the build_indeed_url call
    url,          \* the value build_indeed_url returned
    card,         \* the job card handed to _extract_job_data
    job,          \* what _extract_job_data returned: <<>> for None, <<dict>> for a dict
    page,         \* the page the browser shows
    jobs,         \* what the last extract_job_listings returned
    view,         \* the driver's answers to the last operation's find_elements calls
    probes,       \* the selectors the last operation handed to the driver, in order
    max_pages,    \* config['max_pages']
    current_page, \* main's page counter
    all_jobs,     \* main's list of collected records
    cookies_file, \* the state of indeed_cookies.pkl
    save_ret,     \* what save_cookies returned in the last step, <<>> if not called
    fail,         \* the driver calls of the last operation that raised
    last_input,   \* the line the last step read from the keyboard, <<>> if it read none
    prompts,      \* how many lines the prompt the program waits at has read
    unrecognized, \* where the page last showed no job card with no line read since
    raised,       \* the operation whose exception reached main, "none" if none did
    driver,       \* the browser session: "open" or "closed"
    saved,        \* the result files that exist
    nav_ret,      \* what manual_navigate returned: <<>> while it has not returned
    extracted,    \* how many times main has called extract_job_listings
    quits,        \* how many times driver.quit() was called
    output_dir,   \* whether the directory output/ exists
    enabled,      \* the savers config enables, as read at the end of main
    handed,       \* the savers called, each with the list it was handed
    paths,        \* the savers that returned, each with what it returned
    cli,          \* the parsed command line
    config        \* the configuration dict of main

extractVars == <<card, job, page, jobs, view, probes>>
runVars == <<nav_ret, extracted, quits>>
saveVars == <<output_dir, enabled, handed, paths>>
configVars == <<cli, config>>
mainVars == <<max_pages, current_page, all_jobs, cookies_file, save_ret, fail, last_input,
              prompts, unrecognized, raised, driver, saved, runVars, saveVars, configVars>>
scraperVars == <<extractVars, mainVars>>
vars == <<pc, args, url, extractVars, mainVars>>

\* ------------------------------------------------------------------ bounds

\* longest job_title drawn for build_indeed_url
MaxLen == 3
\* longest location drawn for build_indeed_url
MaxLocLen == 1

\* ----------------------------------------------------------- text helpers

RECURSIVE Flatten(_)
\* the concatenation of a sequence of texts (an f-string's parts)
Flatten(parts) ==
    IF parts = <<>> THEN <<>> ELSE Head(parts) \o Flatten(Tail(parts))

\* all texts over alphabet cs of length at most n
TextsUpTo(cs, n) == UNION {[1..k -> cs] : k \in 0..n}

\* s starts with p
StartsWith(s, p) == Len(s) >= Len(p) /\ SubSeq(s, 1, Len(p)) = p

\* s ends with p
EndsWith(s, p) == Len(s) >= Len(p) /\ SubSeq(s, Len(s) - Len(p) + 1, Len(s)) = p

\* p occurs in s
Contains(s, p) == \E i \in 1..(Len(s) - Len(p) + 1) : SubSeq(s, i, i + Len(p) - 1) = p

DigitChars == <<"0", "1", "2", "3", "4", "5", "6", "7", "8", "9">>

RECURSIVE NatToStr(_)
\* the decimal digits of n >= 0, as str(n) gives them
NatToStr(n) ==
    IF n < 10 THEN <<DigitChars[n + 1]>>
    ELSE NatToStr(n \div 10) \o <<DigitChars[(n % 10) + 1]>>

\* an integer formatted by an f-string: a minus sign and the digits
IntToStr(n) == IF n < 0 THEN <<"-">> \o NatToStr(0 - n) ELSE NatToStr(n)

RECURSIVE ReplaceFirstOnly(_, _, _)
\* str.replace with count 1: only the first occurrence is replaced
ReplaceFirstOnly(s, old, new) ==
    IF s = <<>> THEN <<>>
    ELSE IF Head(s) = old THEN <<new>> \o Tail(s)
    ELSE <<Head(s)>> \o ReplaceFirstOnly(Tail(s), old, new)

RECURSIVE Replace(_, _, _)
\* str.replace(old, new) for one-character old and new: a left to right scan
Replace(s, old, new) ==
    IF s = <<>> THEN <<>>
    ELSE IF Head(s) = old THEN <<new>> \o Replace(Tail(s), old, new)
    ELSE <<Head(s)>> \o Replace(Tail(s), old, new)

\* the first position at which p occurs in s, 0 when it does not
IndexOf(s, p) ==
    IF Contains(s, p)
    THEN CHOOSE i \in 1..(Len(s) - Len(p) + 1) :
             /\ SubSeq(s, i, i + Len(p) - 1) = p
             /\ \A j \in 1..(i - 1) : SubSeq(s, j, j + Len(p) - 1) # p
    ELSE 0

\* s.split(p)[0]: the text before the first p, all of s when p does not occur
BeforeFirst(s, p) == IF IndexOf(s, p) = 0 THEN s ELSE SubSeq(s, 1, IndexOf(s, p) - 1)

\* the text after the first p (p occurs in s)
AfterFirst(s, p) == SubSeq(s, IndexOf(s, p) + Len(p), Len(s))

\* whitespace, as str.strip() sees it
Whitespace == {" ", "\t", "\n"}

RECURSIVE LStrip(_)
LStrip(s) == IF s # <<>> /\ Head(s) \in Whitespace THEN LStrip(Tail(s)) ELSE s

RECURSIVE RStrip(_)
RStrip(s) ==
    IF s # <<>> /\ s[Len(s)] \in Whitespace THEN RStrip(SubSeq(s, 1, Len(s) - 1)) ELSE s

\* str.strip()
Strip(s) == RStrip(LStrip(s))

UpperChars == <<"A", "B", "C", "D", "E", "F", "G", "H", "I", "J", "K", "L", "M",
                "N", "O", "P", "Q", "R", "S", "T", "U", "V", "W", "X", "Y", "Z">>
LowerChars == <<"a", "b", "c", "d", "e", "f", "g", "h", "i", "j", "k", "l", "m",
                "n", "o", "p", "q", "r", "s", "t", "u", "v", "w", "x", "y", "z">>

\* one character in lower case
LowerChar(c) ==
    IF \E i \in 1..26 : UpperChars[i] = c
    THEN LowerChars[CHOOSE i \in 1..26 : UpperChars[i] = c]
    ELSE c

\* str.lower()
Lower(s) == [i \in 1..Len(s) |-> LowerChar(s[i])]

\* ------------------------------------------------------- build_indeed_url

\* "https://de.indeed.com/jobs?q="
UrlPrefix ==
    <<"h", "t", "t", "p", "s", ":", "/", "/", "d", "e", ".", "i", "n", "d", "e", "e",
      "d", ".", "c", "o", "m", "/", "j", "o", "b", "s", "?", "q", "=">>
\* "&l="
LocKey == <<"&", "l", "=">>
\* "&radius="
RadiusKey == <<"&", "r", "a", "d", "i", "u", "s", "=">>
\* "&limit="
LimitKey == <<"&", "l", "i", "m", "i", "t", "=">>
\* "&start="
StartKey == <<"&", "s", "t", "a", "r", "t", "=">>

\* the default of the start parameter
DefaultStart == 0
\* the default of the limit parameter
DefaultLimit == 15

\* a keyword argument left out of the call, and one given the value v
Omitted == <<>>
Given(v) == <<v>>

\* the value a keyword parameter takes: the argument, or the default when omitted
ArgOr(a, default) == IF a = Omitted THEN default ELSE a[1]

\* mutant: only the first space is encoded
FormatTermFirstOnly(s) == ReplaceFirstOnly(s, " ", "+")

RECURSIVE QuotePlus(_)
\* mutant: urllib's quote_plus, which also percent-encodes a literal plus
QuotePlus(s) ==
    IF s = <<>> THEN <<>>
    ELSE IF Head(s) = " " THEN <<"+">> \o QuotePlus(Tail(s))
    ELSE IF Head(s) = "+" THEN <<"%", "2", "B">> \o QuotePlus(Tail(s))
    ELSE <<Head(s)>> \o QuotePlus(Tail(s))

\* job_title and location as they enter the URL
FormatTerm(s) == Replace(s, " ", "+")

\* mutant: the pagination suffix added for start = 0 too
StartSuffixNonNegative(start) == IF start >= 0 THEN StartKey \o IntToStr(start) ELSE <<>>

\* the pagination suffix, added when start > 0
StartSuffix(start) == IF start > 0 THEN StartKey \o IntToStr(start) ELSE <<>>

\* build_indeed_url(job_title, location, radius, start=0, limit=15)
build_indeed_url(job_title, location, radius, start, limit) ==
    LET t == FormatTerm(job_title)
        l == FormatTerm(location)
        base == Flatten(<<UrlPrefix, t, LocKey, l, RadiusKey, IntToStr(radius),
                          LimitKey, IntToStr(ArgOr(limit, DefaultLimit))>>)
    IN  base \o StartSuffix(ArgOr(start, DefaultStart))

\* ------------------------------------------------------ _extract_job_data

\* the selector lists of _extract_job_data, in the order the fields are read
title_selectors == <<"h2.jobTitle span", "h2.jobTitle a span", "a.jcs-JobTitle span", ".jobTitle">>
company_selectors == <<"span[data-testid='company-name']", ".companyName", ".company_location .companyName">>
location_selectors == <<"div[data-testid='text-location']", ".companyLocation", ".company_location .companyLocation">>
salary_selectors == <<"div[data-testid='attribute_snippet_testid']", ".salary-snippet", ".salaryOnly">>
url_selectors == <<"h2.jobTitle a", "a.jcs-JobTitle", ".jobTitle a">>
snippet_selectors == <<"div.job-snippet", ".job-snippet", ".job-snippet-container">>
date_selectors == <<"span.date", ".date", ".new">>

\* the fields in the order _extract_job_data reads them (job_id is read with url)
FieldOrder == <<"title", "company", "location", "salary", "url", "snippet", "date_posted">>

SelectorsOf(f) ==
    CASE f = "title" -> title_selectors
      [] f = "company" -> company_selectors
      [] f = "location" -> location_selectors
      [] f = "salary" -> salary_selectors
      [] f = "url" -> url_selectors
      [] f = "snippet" -> snippet_selectors
      [] f = "date_posted" -> date_selectors

\* the sentinels
TitleNotFound == <<"T", "i", "t", "l", "e", " ", "n", "o", "t", " ", "f", "o", "u", "n", "d">>
CompanyNotFound == <<"C", "o", "m", "p", "a", "n", "y", " ", "n", "o", "t", " ", "f", "o", "u", "n", "d">>
LocationNotFound == <<"L", "o", "c", "a", "t", "i", "o", "n", " ", "n", "o", "t", " ", "f", "o", "u", "n", "d">>
NotSpecified == <<"N", "o", "t", " ", "s", "p", "e", "c", "i", "f", "i", "e", "d">>
NotAvailable == <<"N", "o", "t", " ", "a", "v", "a", "i", "l", "a", "b", "l", "e">>
Unknown == <<"u", "n", "k", "n", "o", "w", "n">>

SentinelOf(f) ==
    CASE f = "title" -> TitleNotFound
      [] f = "company" -> CompanyNotFound
      [] f = "location" -> LocationNotFound
      [] f = "salary" -> NotSpecified
      [] f = "url" -> NotAvailable
      [] f = "job_id" -> Unknown
      [] f = "snippet" -> NotAvailable
      [] f = "date_posted" -> NotSpecified

\* the eight keys of a job record
JobFields == {"title", "company", "location", "salary", "url", "job_id", "snippet", "date_posted"}

\* get_attribute's None for an attribute the element does not have
NoAttribute == <<"None">>

\* What the driver answers to card.find_element(selector): kind "none" is
\* NoSuchElementException, kind "error" any other driver exception, kind "elem"
\* an element with its text and its href attribute.
NoElem == [kind |-> "none", text |-> <<>>, href |-> NoAttribute]
DriverError == [kind |-> "error", text |-> <<>>, href |-> NoAttribute]
Elem(text, href) == [kind |-> "elem", text |-> text, href |-> href]

\* "jk="
JkKey == <<"j", "k", "=">>

\* job['url'].split('jk=')[1].split('&')[0] if 'jk=' in job['url'] else "unknown"
job_id_of(u) ==
    IF Contains(u, JkKey)
    THEN BeforeFirst(BeforeFirst(AfterFirst(u, JkKey), JkKey), <<"&">>)
    ELSE Unknown

RECURSIVE ProbeLast(_, _, _, _)
\* mutant: the loop without its break, so that the last matching selector wins
ProbeLast(dom, sels, i, best) ==
    IF i > Len(sels) THEN
        IF best = 0 THEN [status |-> "absent", at |-> 0, probed |-> Len(sels)]
        ELSE [status |-> "found", at |-> best, probed |-> Len(sels)]
    ELSE IF dom[sels[i]].kind = "none" THEN ProbeLast(dom, sels, i + 1, best)
    ELSE IF dom[sels[i]].kind = "error" THEN [status |-> "raised", at |-> i, probed |-> i]
    ELSE ProbeLast(dom, sels, i + 1, i)

RECURSIVE ProbeFrom(_, _, _)
\* for selector in sels[i..]: try find_element, continue on NoSuchElementException,
\* break on an element; any other exception leaves the loop
ProbeFrom(dom, sels, i) ==
    IF i > Len(sels) THEN [status |-> "absent", at |-> 0, probed |-> Len(sels)]
    ELSE IF dom[sels[i]].kind = "none" THEN ProbeFrom(dom, sels, i + 1)
    ELSE IF dom[sels[i]].kind = "error" THEN [status |-> "raised", at |-> i, probed |-> i]
    ELSE [status |-> "found", at |-> i, probed |-> i]

\* mutant: the last selector that finds an element wins
ProbeLastWins(dom, sels) == ProbeLast(dom, sels, 1, 0)

\* the probe of one selector list of a card
Probe(dom, sels) == ProbeFrom(dom, sels, 1)

\* mutant: a driver error on a field is swallowed like a missing element
ReadFieldLenient(dom, f, jb) ==
    LET pr == ProbeFrom(dom, SelectorsOf(f), 1)
    IN  IF pr.status = "found" /\ f # "url"
        THEN [raised |-> FALSE, job |-> jb @@ (f :> Strip(dom[SelectorsOf(f)[pr.at]].text))]
        ELSE IF pr.status = "found" /\ dom[SelectorsOf(f)[pr.at]].href # NoAttribute
        THEN [raised |-> FALSE,
              job |-> jb @@ ("url" :> dom[SelectorsOf(f)[pr.at]].href)
                         @@ ("job_id" :> job_id_of(dom[SelectorsOf(f)[pr.at]].href))]
        ELSE IF pr.status = "found"
        THEN [raised |-> FALSE, job |-> jb @@ ("url" :> NoAttribute)]
        ELSE IF f = "url"
        THEN [raised |-> FALSE, job |-> jb @@ ("url" :> NotAvailable) @@ ("job_id" :> Unknown)]
        ELSE [raised |-> FALSE, job |-> jb @@ (f :> SentinelOf(f))]

\* One field of _extract_job_data: the selector loop and the sentinel after it.
\* jb is the dict so far; raised tells that an exception left the loop.
ReadField(dom, f, jb) ==
    LET pr == Probe(dom, SelectorsOf(f))
        el == dom[SelectorsOf(f)[pr.at]]
    IN  IF pr.status = "raised" THEN [raised |-> TRUE, job |-> jb]
        ELSE IF pr.status = "absent" THEN
            IF f = "url"
            THEN [raised |-> FALSE,
                  job |-> jb @@ ("url" :> NotAvailable) @@ ("job_id" :> Unknown)]
            ELSE [raised |-> FALSE, job |-> jb @@ (f :> SentinelOf(f))]
        ELSE IF f = "url" THEN
            \* 'jk=' in None raises TypeError, which the loop does not catch
            IF el.href = NoAttribute THEN [raised |-> TRUE, job |-> jb]
            ELSE [raised |-> FALSE,
                  job |-> jb @@ ("url" :> el.href) @@ ("job_id" :> job_id_of(el.href))]
        ELSE [raised |-> FALSE, job |-> jb @@ (f :> Strip(el.text))]

\* the selectors ReadField hands to the driver for field f
ProbesOf(dom, f) == SubSeq(SelectorsOf(f), 1, Probe(dom, SelectorsOf(f)).probed)

RECURSIVE ExtractFrom(_, _, _, _)
\* the body of _extract_job_data from field k on; an exception ends it with None
ExtractFrom(dom, k, jb, log) ==
    IF k > Len(FieldOrder) THEN [ret |-> <<jb>>, log |-> log]
    ELSE LET r == ReadField(dom, FieldOrder[k], jb)
             lg == log \o ProbesOf(dom, FieldOrder[k])
         IN  IF r.raised THEN [ret |-> <<>>, log |-> lg]
             ELSE ExtractFrom(dom, k + 1, r.job, lg)

\* the dict with no key yet
EmptyDict == [k \in {} |-> <<>>]

\* _extract_job_data(card): ret is <<>> for None and <<job>> for a dict
extract_job_data(dom) == ExtractFrom(dom, 1, EmptyDict, <<>>)

\* ------------------------------------------------------ pages and cards

\* every selector _extract_job_data hands to card.find_element
AllFieldSelectors ==
    UNION {{SelectorsOf(FieldOrder[k])[i] : i \in 1..Len(SelectorsOf(FieldOrder[k]))} :
               k \in 1..Len(FieldOrder)}

\* the text and the href of the element selector number i of a list finds
TextAt(i) == <<" ", DigitChars[i + 1], "\n">>
HrefAt(i) ==
    IF i = 2 THEN <<"/", "v", "i", "e", "w", "/", "2">>
    ELSE <<"/", "v", "?", "j", "k", "=", DigitChars[i + 1], "a", "&", "f", "=", "1">>

\* a card on which every selector finds an element
FullCard ==
    [sel \in AllFieldSelectors |->
        LET i == CHOOSE i \in 1..4 : \E k \in 1..Len(FieldOrder) :
                     /\ i <= Len(SelectorsOf(FieldOrder[k]))
                     /\ SelectorsOf(FieldOrder[k])[i] = sel
        IN  Elem(TextAt(i), HrefAt(i))]

\* a card on which no selector finds anything
BareCard == [sel \in AllFieldSelectors |-> NoElem]

\* a card whose first title probe fails in the driver (a stale element)
StaleCard == [sel \in AllFieldSelectors |-> IF sel = title_selectors[1] THEN DriverError ELSE NoElem]

\* the card elements a page lists, and what the driver answers on each
SampleCards == {"full", "bare", "stale"}
DomOf(c) ==
    CASE c = "full" -> FullCard
      [] c = "bare" -> BareCard
      [] c = "stale" -> StaleCard

\* --------------------------------------------------- extract_job_listings

\* the job-card selectors of manual_navigate, extract_job_listings and go_to_next_page
CardSelectors == <<"div[data-testid='jobCard']", ".jobsearch-ResultsList > div",
                   "#mosaic-provider-jobcards .job_seen_beacon">>

\* What the driver answers to driver.find_elements(selector): a list of
\* elements, or an exception.
ListAnswer(elems) == [kind |-> "list", elems |-> elems]
ErrorAnswer == [kind |-> "error", elems |-> <<>>]

RECURSIVE FindCardsFrom(_, _, _)
\* the job-card loop from selector i on: job_cards keeps the last list the
\* driver returned, an exception moves on, a non-empty list breaks
FindCardsFrom(v, i, job_cards) ==
    IF i > Len(CardSelectors) THEN [cards |-> job_cards, at |-> 0, probed |-> Len(CardSelectors)]
    ELSE IF v[CardSelectors[i]].kind = "error" THEN FindCardsFrom(v, i + 1, job_cards)
    ELSE IF v[CardSelectors[i]].elems # <<>>
    THEN [cards |-> v[CardSelectors[i]].elems, at |-> i, probed |-> i]
    ELSE FindCardsFrom(v, i + 1, v[CardSelectors[i]].elems)

\* mutant: every selector is probed and the last non-empty list wins
FindCardsLastWins(v) ==
    LET hits == {i \in 1..Len(CardSelectors) :
                    v[CardSelectors[i]].kind = "list" /\ v[CardSelectors[i]].elems # <<>>}
        last == CHOOSE i \in hits : \A j \in hits : j <= i
    IN  IF hits = {} THEN [cards |-> <<>>, at |-> 0, probed |-> Len(CardSelectors)]
        ELSE [cards |-> v[CardSelectors[last]].elems, at |-> last,
              probed |-> Len(CardSelectors)]

\* the job-card loop, job_cards starting as None
FindCards(v) == FindCardsFrom(v, 1, <<>>)

RECURSIVE CollectUntilFailure(_, _, _)
\* mutant: the first card without a record ends the loop
CollectUntilFailure(cards, k, acc) ==
    IF k > Len(cards) THEN acc
    ELSE LET r == extract_job_data(DomOf(cards[k])).ret
         IN  IF r = <<>> THEN acc ELSE CollectUntilFailure(cards, k + 1, acc \o r)

RECURSIVE CollectFrom(_, _, _)
\* for card in job_cards[k..]: append the record unless it is None
CollectFrom(cards, k, acc) ==
    IF k > Len(cards) THEN acc
    ELSE LET r == extract_job_data(DomOf(cards[k])).ret
         IN  CollectFrom(cards, k + 1, IF r # <<>> THEN acc \o r ELSE acc)

\* extract_job_listings(): the list returned and the selectors probed for cards
extract_job_listings(v) ==
    LET fc == FindCards(v)
    IN  [jobs |-> IF fc.cards = <<>> THEN <<>> ELSE CollectFrom(fc.cards, 1, <<>>),
         log |-> SubSeq(CardSelectors, 1, fc.probed)]

\* ------------------------------------------------------- the drawn inputs

\* the driver's answers for the selectors of one field: nothing, an exception,
\* an element, and for a link an element without href
AnswerKinds(f) == IF f = "url" THEN {"none", "error", "elem", "nohref"} ELSE {"none", "error", "elem"}

AnswerOf(kind, i) ==
    CASE kind = "none" -> NoElem
      [] kind = "error" -> DriverError
      [] kind = "elem" -> Elem(TextAt(i), HrefAt(i))
      [] kind = "nohref" -> Elem(TextAt(i), NoAttribute)

\* card bg with the answers for field f replaced by those of kinds
WithField(bg, f, kinds) ==
    [sel \in AllFieldSelectors |->
        IF \E i \in 1..Len(SelectorsOf(f)) : SelectorsOf(f)[i] = sel
        THEN LET i == CHOOSE i \in 1..Len(SelectorsOf(f)) : SelectorsOf(f)[i] = sel
             IN  AnswerOf(kinds[i], i)
        ELSE bg[sel]]

\* the cards drawn for _extract_job_data: any answers on one field, over a
\* card on which the other fields are all found or all missing
CardDoms ==
    UNION {{WithField(bg, FieldOrder[k], kinds) :
                kinds \in [1..Len(SelectorsOf(FieldOrder[k])) -> AnswerKinds(FieldOrder[k])]} :
               bg \in {FullCard, BareCard}, k \in 1..Len(FieldOrder)}

\* no card
NoCard == [sel \in AllFieldSelectors |-> NoElem]

\* most cards a drawn page lists under its first job-card selector
MaxCards == 2

CardLists(n) == UNION {[1..k -> SampleCards] : k \in 0..n}

\* A page: the cards each job-card selector matches, whether one of the
\* challenge locators, the overlay selector, one of the cookie-button locators
\* and one of the next-page selectors match.
Page(cards, challenge, overlay, cookie_button, next) ==
    [cards |-> cards, challenge |-> challenge, overlay |-> overlay,
     cookie_button |-> cookie_button, next |-> next]

\* a page with cards and nothing else
PageOf(cards) == Page(cards, FALSE, FALSE, FALSE, FALSE)

\* the job-card lists of a page, by selector
CardsBy(l1, l2, l3) ==
    [sel \in {CardSelectors[i] : i \in 1..Len(CardSelectors)} |->
        IF sel = CardSelectors[1] THEN l1
        ELSE IF sel = CardSelectors[2] THEN l2 ELSE l3]

\* the page of a browser that has loaded nothing
BlankPage == PageOf(CardsBy(<<>>, <<>>, <<>>))

\* the pages drawn for extract_job_listings
ExtractPages ==
    {PageOf(CardsBy(l1, l2, l3)) :
        l1 \in CardLists(MaxCards), l2 \in CardLists(1), l3 \in CardLists(1)}

\* The driver's answers on page p when the find_elements calls for the
\* selectors in failing raise: any call may fail.
ViewOf(p, failing) ==
    [sel \in DOMAIN p.cards |->
        IF sel \in failing THEN ErrorAnswer ELSE ListAnswer(p.cards[sel])]
Views(p) == {ViewOf(p, failing) : failing \in SUBSET DOMAIN p.cards}

\* the answers of a step that makes no find_elements call
NoView == ViewOf(BlankPage, {})

\* the command line and the configuration while main's overrides are not modelled
ConfigIdle ==
    /\ cli = <<>>
    /\ config = <<>>

\* the variables of a run of main while no run is modelled
MainIdle ==
    /\ max_pages = 0
    /\ current_page = 0
    /\ all_jobs = <<>>
    /\ cookies_file = "absent"
    /\ save_ret = <<>>
    /\ fail = {}
    /\ last_input = <<>>
    /\ prompts = 0
    /\ unrecognized = "none"
    /\ raised = "none"
    /\ driver = "open"
    /\ saved = {}
    /\ nav_ret = <<>>
    /\ extracted = 0
    /\ quits = 0
    /\ output_dir = FALSE
    /\ enabled = {}
    /\ handed = {}
    /\ paths = {}
    /\ ConfigIdle

\* ------------------------------------------------ extraction, as a machine

InitExtract ==
    /\ args = [job_title |-> <<>>, location |-> <<>>, radius |-> 0,
               start |-> Omitted, limit |-> Omitted]
    /\ url = <<>>
    /\ job = <<>>
    /\ jobs = <<>>
    /\ view = NoView
    /\ probes = <<>>
    /\ MainIdle
    /\ \/ pc = "card_call" /\ card \in CardDoms /\ page = BlankPage
       \/ pc = "extract_call" /\ card = NoCard /\ page \in ExtractPages

\* a call of _extract_job_data on the drawn card
ExtractJobData ==
    /\ pc = "card_call"
    /\ job' = extract_job_data(card).ret
    /\ probes' = extract_job_data(card).log
    /\ pc' = "card_done"
    /\ UNCHANGED <<args, url, card, page, jobs, view, mainVars>>

\* a call of extract_job_listings on the drawn page
ExtractListings ==
    /\ pc = "extract_call"
    /\ \E v \in Views(page) :
           /\ jobs' = extract_job_listings(v).jobs
           /\ probes' = extract_job_listings(v).log
           /\ view' = v
    /\ pc' = "extract_done"
    /\ UNCHANGED <<args, url, card, job, page, mainVars>>

NextExtract == ExtractJobData \/ ExtractListings

SpecExtract == InitExtract /\ [][NextExtract]_vars

\* ------------------------------------------- URL construction, as a machine

\* "C++ developer", "Frankfurt am Main", "software engineer": the tests' inputs
CppDeveloper == <<"C", "+", "+", " ", "d", "e", "v", "e", "l", "o", "p", "e", "r">>
FrankfurtAmMain ==
    <<"F", "r", "a", "n", "k", "f", "u", "r", "t", " ", "a", "m", " ", "M", "a", "i", "n">>
SoftwareEngineer ==
    <<"s", "o", "f", "t", "w", "a", "r", "e", " ", "e", "n", "g", "i", "n", "e", "e", "r">>

\* characters the drawn texts are made of: a space, a plus, a reserved
\* character and a letter
TermChars == {" ", "+", "&", "a"}

JobTitles == TextsUpTo(TermChars, MaxLen) \cup {CppDeveloper, SoftwareEngineer}
Locations == TextsUpTo({" ", "b"}, MaxLocLen) \cup {FrankfurtAmMain}
Radii == {-5, 0, 25}
Starts == {Omitted} \cup {Given(v) : v \in {-1, 0, 30}}
Limits == {Omitted} \cup {Given(v) : v \in {0, 15, 20}}

UrlArgs ==
    [job_title : JobTitles, location : Locations, radius : Radii,
     start : Starts, limit : Limits]

InitUrl ==
    /\ pc = "url_call"
    /\ args \in UrlArgs
    /\ url = <<>>
    /\ card = NoCard
    /\ job = <<>>
    /\ page = BlankPage
    /\ jobs = <<>>
    /\ view = NoView
    /\ probes = <<>>
    /\ MainIdle

\* the call of build_indeed_url with the drawn arguments
BuildUrl ==
    /\ pc = "url_call"
    /\ url' = build_indeed_url(args.job_title, args.location, args.radius,
                               args.start, args.limit)
    /\ pc' = "url_done"
    /\ UNCHANGED <<args, scraperVars>>

NextUrl == BuildUrl

SpecUrl == InitUrl /\ [][NextUrl]_vars

\* ----------------------------------------------------- the scraper's steps

CardSelectorSet == {CardSelectors[i] : i \in 1..Len(CardSelectors)}

\* no job-card selector matches anything on page p
PageUnrecognized(p) == \A sel \in CardSelectorSet : p.cards[sel] = <<>>

\* mutant: the overlay check left out of the condition
nav_check_no_overlay(p, f) ==
    IF "challenge" \in f THEN "except"
    ELSE IF FindCards(ViewOf(p, f \cap CardSelectorSet)).at # 0 /\ ~ p.challenge THEN "return"
    ELSE "prompt"

\* The checks of manual_navigate after the page load, with the driver calls in
\* f raising: "return" for the return True without a prompt, "prompt" for the
\* prompt after the checks, "except" for the prompt of the except branch.
nav_check(p, f) ==
    LET job_cards_found == FindCards(ViewOf(p, f \cap CardSelectorSet)).at # 0
        challenge_found == p.challenge
        cookie_dialog_found == p.overlay /\ "overlay" \notin f
    IN  IF "challenge" \in f THEN "except"
        ELSE IF job_cards_found /\ ~ challenge_found /\ ~ cookie_dialog_found THEN "return"
        ELSE "prompt"

\* the words the prompts know
Done == <<"d", "o", "n", "e">>
Save == <<"s", "a", "v", "e">>
Quit == <<"q", "u", "i", "t">>

\* mutant: the line compared without lower()
CommandCaseSensitive(line) == Strip(line)

\* input(...).strip().lower()
CommandOf(line) == Lower(Strip(line))

\* save_cookies(): the value returned and the file afterwards. get_cookies or
\* open may raise, leaving the file alone; pickle.dump may raise after open has
\* truncated the file.
save_cookies(file, f) ==
    IF "get_cookies" \in f \/ "open" \in f THEN [ret |-> FALSE, file |-> file]
    ELSE IF "dump" \in f THEN [ret |-> FALSE, file |-> "partial"]
    ELSE [ret |-> TRUE, file |-> "new"]

\* mutant: save_cookies called for 'done' as well
SavesOnDoneToo(cmd) == cmd = Save \/ cmd = Done

\* the commands of the manual_navigate prompt that call save_cookies
SavesOn(cmd) == cmd = Save

\* _handle_cookie_consent(): True when a cookie button was clicked, False when
\* none was and an overlay is found, True otherwise; every exception is swallowed
handle_cookie_consent(p, f) ==
    IF p.cookie_button /\ "cookie_click" \notin f THEN TRUE
    ELSE IF p.overlay /\ "overlay" \notin f THEN FALSE
    ELSE TRUE

\* has_next_page(): a next-page selector finds an element; any other exception
\* gives False
has_next_page(p, f) == p.next /\ "next" \notin f

\* --------------------------------------------------- a run of main, bounds

\* largest max_pages drawn
MaxPages == 2
\* most lines the operator types that no prompt knows
MaxPrompts == 2

\* the lines the operator types
Inputs == {<<"d", "o", "n", "e">>,
           <<" ", "D", "o", "n", "e", "\n">>,
           <<"s", "a", "v", "e">>,
           <<"\t", "S", "A", "V", "E", " ">>,
           <<"q", "u", "i", "t">>,
           <<"Q", "U", "I", "T">>,
           <<>>,
           <<"d", "o", " ", "n", "e">>}

\* what the operator's lines are read as
Commands == [line \in Inputs |-> CommandOf(line)]

\* the pages the site serves
MainCards ==
    {CardsBy(<<>>, <<>>, <<>>),
     CardsBy(<<"full">>, <<>>, <<>>),
     CardsBy(<<>>, <<"stale", "bare">>, <<"full">>)}
MainPages ==
    {Page(c, ch, ov, cb, nx) : c \in MainCards, ch \in BOOLEAN, ov \in BOOLEAN,
                               cb \in BOOLEAN, nx \in BOOLEAN}

\* The pages a click or the operator brings up: only manual_navigate probes
\* the challenge locators, so these pages are told apart by the rest.
NextPages == {p \in MainPages : ~ p.challenge}

\* the job-card calls that raise together in one operation of a run
CardFails == {{}, {CardSelectors[1]}, CardSelectorSet}

\* the driver calls that raise in one manual_navigate
NavFails ==
    {f \cup c : f \in SUBSET {"challenge", "overlay"}, c \in CardFails}
        \cup {{"load_cookies"}, {"get"}, {"load_cookies", "get"}}

\* the calls that raise in one save_cookies
SaveFails == {{}, {"get_cookies"}, {"dump"}}

\* config of the run: "software engineer" in "Berlin", radius 25, 15 per page
Berlin == <<"B", "e", "r", "l", "i", "n">>
ConfigArgs ==
    [job_title |-> SoftwareEngineer, location |-> Berlin, radius |-> 25,
     start |-> Omitted, limit |-> Given(15)]

\* mutant: main going on whatever manual_navigate returned
after_navigate_ignoring(ret) == "extract"

\* if not scraper.manual_navigate(url): return
after_navigate(ret) == IF ret THEN "extract" ELSE "quit"

\* mutant: the while test letting one more page through
loop_test_inclusive(cp, mp) == cp <= mp

\* while current_page < config['max_pages']
loop_test(cp, mp) == cp < mp

\* mutant: the list replaced by the page's records
extend_replacing(all, js) == js

\* all_jobs.extend(jobs)
extend(all, js) == all \o js

\* mutant: the page counter left as it is
current_page_kept(cp) == cp

\* current_page += 1
next_current_page(cp) == cp + 1

\* mutant: close() that leaves the session open
close_never(d, q) == [driver |-> d, quits |-> q]

\* close(): if self.driver: self.driver.quit()
close(d, q) == [driver |-> "closed", quits |-> q + 1]

\* main up to the with statement: the output directory exists, the URL is
\* built and the browser is open
Init ==
    /\ pc = "navigate"
    /\ args = ConfigArgs
    /\ url = build_indeed_url(ConfigArgs.job_title, ConfigArgs.location, ConfigArgs.radius,
                              ConfigArgs.start, ConfigArgs.limit)
    /\ card = NoCard
    /\ job = <<>>
    /\ page = BlankPage
    /\ jobs = <<>>
    /\ view = NoView
    /\ probes = <<>>
    /\ max_pages \in -1..MaxPages
    /\ current_page = 0
    /\ all_jobs = <<>>
    /\ cookies_file \in {"absent", "old"}
    /\ save_ret = <<>>
    /\ fail = {}
    /\ last_input = <<>>
    /\ prompts = 0
    /\ unrecognized = "none"
    /\ raised = "none"
    /\ driver = "open"
    /\ saved = {}
    /\ nav_ret = <<>>
    /\ extracted = 0
    /\ quits = 0
    /\ output_dir = TRUE
    /\ enabled = {}
    /\ handed = {}
    /\ paths = {}
    /\ ConfigIdle

\* manual_navigate(url) up to its return True or its first prompt: load_cookies
\* (every exception caught), driver.get(url) outside any try, then the checks
ManualNavigate ==
    /\ pc = "navigate"
    /\ \E p \in MainPages, f \in NavFails :
           /\ "load_cookies" \in f => cookies_file # "absent"
           /\ fail' = f
           /\ IF "get" \in f
              THEN /\ raised' = "manual_navigate"
                   /\ pc' = "raise"
                   /\ UNCHANGED <<page, view, probes, unrecognized, nav_ret>>
              ELSE /\ page' = p
                   /\ view' = ViewOf(p, f \cap CardSelectorSet)
                   /\ probes' = SubSeq(CardSelectors, 1,
                                       FindCards(ViewOf(p, f \cap CardSelectorSet)).probed)
                   /\ pc' = IF nav_check(p, f) = "return" THEN after_navigate(TRUE)
                            ELSE "nav_prompt"
                   /\ nav_ret' = IF nav_check(p, f) = "return" THEN <<TRUE>> ELSE nav_ret
                   /\ unrecognized' = IF PageUnrecognized(p) THEN "navigate" ELSE "none"
                   /\ UNCHANGED raised
    /\ UNCHANGED <<args, url, card, job, jobs, max_pages, current_page, all_jobs,
                   cookies_file, save_ret, last_input, prompts, driver, saved,
                   extracted, quits, saveVars, configVars>>

\* the operator, asked to act, brings another page up in the browser
OperatorNavigates ==
    /\ pc \in {"nav_prompt", "next_prompt"}
    /\ page' \in NextPages \ {page}
    /\ fail' = {}
    /\ last_input' = <<>>
    /\ save_ret' = <<>>
    /\ view' = NoView
    /\ probes' = <<>>
    /\ UNCHANGED <<pc, args, url, card, job, jobs, max_pages, current_page, all_jobs,
                   cookies_file, prompts, unrecognized, raised, driver, saved,
                   runVars, saveVars, configVars>>

\* One turn of the prompt loop of manual_navigate: a line is read; 'done'
\* returns True, 'save' calls save_cookies and returns True, 'quit' returns
\* False, anything else asks again.
NavPrompt ==
    /\ pc = "nav_prompt"
    /\ \E line \in Inputs :
           LET cmd == Commands[line]
           IN  /\ last_input' = <<line>>
               /\ cmd \notin {Done, Save, Quit} => prompts < MaxPrompts
               /\ prompts' = IF cmd \in {Done, Save, Quit} THEN 0 ELSE prompts + 1
               /\ IF SavesOn(cmd)
                  THEN \E f \in SaveFails :
                           /\ save_ret' = <<save_cookies(cookies_file, f).ret>>
                           /\ cookies_file' = save_cookies(cookies_file, f).file
                           /\ fail' = f
                  ELSE /\ save_ret' = <<>>
                       /\ fail' = {}
                       /\ UNCHANGED cookies_file
               /\ pc' = IF cmd \in {Done, Save, Quit} THEN after_navigate(cmd # Quit)
                        ELSE "nav_prompt"
               /\ nav_ret' = IF cmd \in {Done, Save, Quit} THEN <<cmd # Quit>> ELSE nav_ret
    /\ unrecognized' = "none"
    /\ view' = NoView
    /\ probes' = <<>>
    /\ UNCHANGED <<args, url, card, job, page, jobs, max_pages, current_page, all_jobs,
                   raised, driver, saved, extracted, quits, saveVars, configVars>>

\* mutant: a missing next button taken for a failure
go_next_step_prompting(p, f) ==
    IF "next" \in f \/ ~ p.next THEN "except"
    ELSE IF "scroll" \in f THEN "except"
    ELSE IF "click" \in f /\ "js_click" \in f THEN "except"
    ELSE "clicked"

\* The steps of go_to_next_page up to the click, with the calls in f raising:
\* "no_button" for the return False, "except" for the except branch, "clicked"
\* when the next button was clicked (directly or by the JavaScript fallback).
go_next_step(p, f) ==
    IF "next" \in f THEN "except"
    ELSE IF ~ p.next THEN "no_button"
    ELSE IF "scroll" \in f THEN "except"
    ELSE IF "click" \in f /\ "js_click" \in f THEN "except"
    ELSE "clicked"

\* the driver calls that raise in one go_to_next_page
GoFails ==
    {c \cup n : c \in SUBSET {"cookie_click", "overlay"},
                n \in {{"next"}, {"scroll"}, {"click", "js_click"}}}
        \cup {c \cup n \cup k : c \in SUBSET {"cookie_click", "overlay"},
                                n \in {{}, {"click"}}, k \in CardFails}

\* mutant: a handled cookie dialog taken for a loaded page
after_click_trusting(p2, f, cookie_handled) ==
    IF FindCards(ViewOf(p2, f \cap CardSelectorSet)).at # 0 \/ cookie_handled
    THEN "return_true"
    ELSE "prompt"

\* What go_to_next_page does after the click on page p2: True when job cards
\* are found, the prompt otherwise (line 594 is never reached).
after_click(p2, f, cookie_handled) ==
    LET job_cards_found == FindCards(ViewOf(p2, f \cap CardSelectorSet)).at # 0
    IN  IF job_cards_found THEN "return_true"
        ELSE IF ~ job_cards_found \/ ~ cookie_handled THEN "prompt"
        ELSE "return_true"

\* the while test of main failing: the loop ends
LoopEnd ==
    /\ pc = "extract"
    /\ ~ loop_test(current_page, max_pages)
    /\ pc' = "save"
    /\ last_input' = <<>>
    /\ save_ret' = <<>>
    /\ fail' = {}
    /\ view' = NoView
    /\ probes' = <<>>
    /\ UNCHANGED <<args, url, card, job, page, jobs, max_pages, current_page, all_jobs,
                   cookies_file, prompts, unrecognized, raised, driver, saved,
                   runVars, saveVars, configVars>>

\* extract_job_listings on each page of a run, for each set of failing calls
MainViews == {ViewOf(p, f) : p \in MainPages, f \in CardFails}
Listings == [v \in MainViews |-> extract_job_listings(v)]

\* one extract_job_listings of the loop of main, and main's break or extend
MainExtract ==
    /\ pc = "extract"
    /\ loop_test(current_page, max_pages)
    /\ \E f \in CardFails :
           LET r == Listings[ViewOf(page, f)]
           IN  /\ fail' = f
               /\ view' = ViewOf(page, f)
               /\ jobs' = r.jobs
               /\ probes' = r.log
               /\ all_jobs' = IF r.jobs = <<>> THEN all_jobs ELSE extend(all_jobs, r.jobs)
               /\ pc' = IF r.jobs = <<>> THEN "save" ELSE "has_next"
    /\ unrecognized' = IF PageUnrecognized(page) THEN "extract" ELSE "none"
    /\ last_input' = <<>>
    /\ save_ret' = <<>>
    /\ extracted' = extracted + 1
    /\ UNCHANGED <<args, url, card, job, page, max_pages, current_page, cookies_file,
                   prompts, raised, driver, saved, nav_ret, quits, saveVars, configVars>>

\* has_next_page() in the loop of main, and main's break
HasNextPage ==
    /\ pc = "has_next"
    /\ \E f \in {{}, {"next"}} :
           /\ fail' = f
           /\ pc' = IF has_next_page(page, f) THEN "go_next" ELSE "save"
    /\ last_input' = <<>>
    /\ save_ret' = <<>>
    /\ view' = NoView
    /\ probes' = <<>>
    /\ UNCHANGED <<args, url, card, job, page, jobs, max_pages, current_page, all_jobs,
                   cookies_file, prompts, unrecognized, raised, driver, saved,
                   runVars, saveVars, configVars>>

\* go_to_next_page() up to its return or its prompt, and main's break or
\* current_page += 1. A clicked cookie button closes its dialog (the overlay
\* may stay), a clicked next button brings up page p2.
GoToNextPage ==
    /\ pc = "go_next"
    /\ \E f \in GoFails :
           LET cookie_clicked == page.cookie_button /\ "cookie_click" \notin f
               cookie_handled == handle_cookie_consent(page, f)
           IN  /\ "cookie_click" \in f => page.cookie_button
               /\ "overlay" \in f => page.overlay /\ ~ cookie_clicked
               /\ fail' = f
               /\ \E ov \in (IF page.overlay /\ cookie_clicked THEN BOOLEAN ELSE {FALSE}) :
                      LET p1 == IF cookie_clicked
                                THEN [page EXCEPT !.cookie_button = FALSE, !.overlay = ov]
                                ELSE page
                          step == go_next_step(p1, f)
                      IN  IF step = "clicked"
                          THEN \E p2 \in NextPages :
                                   LET after == after_click(p2, f, cookie_handled)
                                   IN  /\ page' = p2
                                       /\ view' = ViewOf(p2, f \cap CardSelectorSet)
                                       /\ probes' =
                                              SubSeq(CardSelectors, 1,
                                                     FindCards(ViewOf(p2, f \cap CardSelectorSet)).probed)
                                       /\ unrecognized' =
                                              IF PageUnrecognized(p2) THEN "next" ELSE "none"
                                       /\ pc' = IF after = "prompt" THEN "next_prompt"
                                                ELSE "extract"
                                       /\ current_page' =
                                              IF after = "prompt" THEN current_page
                                              ELSE next_current_page(current_page)
                          ELSE /\ f \cap CardSelectorSet = {}
                               /\ page' = p1
                               /\ view' = NoView
                               /\ probes' = <<>>
                               /\ pc' = IF step = "no_button" THEN "save" ELSE "next_prompt"
                               /\ UNCHANGED <<unrecognized, current_page>>
    /\ last_input' = <<>>
    /\ save_ret' = <<>>
    /\ UNCHANGED <<args, url, card, job, jobs, max_pages, all_jobs, cookies_file,
                   prompts, raised, driver, saved, runVars, saveVars, configVars>>

\* The single prompt of go_to_next_page: 'done' returns True, any other line
\* returns False; main goes on with the next page or breaks.
NextPrompt ==
    /\ pc = "next_prompt"
    /\ \E line \in Inputs :
           /\ last_input' = <<line>>
           /\ pc' = IF Commands[line] = Done THEN "extract" ELSE "save"
           /\ current_page' = IF Commands[line] = Done
                              THEN next_current_page(current_page)
                              ELSE current_page
    /\ unrecognized' = "none"
    /\ fail' = {}
    /\ save_ret' = <<>>
    /\ view' = NoView
    /\ probes' = <<>>
    /\ UNCHANGED <<args, url, card, job, page, jobs, max_pages, all_jobs, cookies_file,
                   prompts, raised, driver, saved, runVars, saveVars, configVars>>

\* a file under the output directory
PathOf(name) == [dir |-> "output", name |-> name]

\* the names the savers make up from the time when they are handed none
DefaultCsv == "indeed_jobs_T.csv"
DefaultJson == "indeed_jobs_T.json"

\* mutant: the savers without their test for an empty list
save_to_always(data, filename, default, write, dir, files, f) ==
    IF write \in f THEN [raises |-> TRUE, ret |-> <<>>, dir |-> TRUE, files |-> files]
    ELSE [raises |-> FALSE, ret |-> <<PathOf(ArgOr(filename, default))>>, dir |-> TRUE,
          files |-> files \cup {PathOf(ArgOr(filename, default))}]

\* The body save_to_csv and save_to_json share, on a disk with the output
\* directory existing or not (dir) and the files in it: nothing is done for an
\* empty list; otherwise the directory is made, the file is written by the
\* call named write, which raises when it is in f, and the path is returned.
save_to(data, filename, default, write, dir, files, f) ==
    IF data = <<>> THEN [raises |-> FALSE, ret |-> <<>>, dir |-> dir, files |-> files]
    ELSE IF write \in f THEN [raises |-> TRUE, ret |-> <<>>, dir |-> TRUE, files |-> files]
    ELSE [raises |-> FALSE, ret |-> <<PathOf(ArgOr(filename, default))>>, dir |-> TRUE,
          files |-> files \cup {PathOf(ArgOr(filename, default))}]

save_to_csv(data, filename, dir, files, f) ==
    save_to(data, filename, DefaultCsv, "to_csv", dir, files, f)

save_to_json(data, filename, dir, files, f) ==
    save_to(data, filename, DefaultJson, "json_dump", dir, files, f)

\* the file names main makes up from the job title, the location and the time
RunCsv == "indeed_jobs_software_engineer_Berlin_T.csv"
RunJson == "indeed_jobs_software_engineer_Berlin_T.json"

\* the write that raises in one run of the savers
WriteFails == {{}, {"to_csv"}, {"json_dump"}}

\* The end of main's with block: save_to_csv when config['output_csv'], then
\* save_to_json when config['output_json'], each handed all_jobs; an exception
\* of a saver leaves main.
SaveResults ==
    /\ pc = "save"
    /\ \E output_csv \in BOOLEAN, output_json \in BOOLEAN, f \in WriteFails :
           LET c == save_to_csv(all_jobs, Given(RunCsv), output_dir, saved, f)
               csv_raises == output_csv /\ c.raises
               dir1 == IF output_csv THEN c.dir ELSE output_dir
               files1 == IF output_csv THEN c.files ELSE saved
               json_called == output_json /\ ~ csv_raises
               j == save_to_json(all_jobs, Given(RunJson), dir1, files1, f)
               json_raises == json_called /\ j.raises
           IN  /\ "to_csv" \in f => csv_raises
               /\ "json_dump" \in f => json_raises
               /\ fail' = f
               /\ enabled' = {k \in {"csv", "json"} :
                                 (k = "csv" /\ output_csv) \/ (k = "json" /\ output_json)}
               /\ handed' = (IF output_csv THEN {<<"csv", all_jobs>>} ELSE {})
                                \cup (IF json_called THEN {<<"json", all_jobs>>} ELSE {})
               /\ paths' = (IF output_csv /\ ~ csv_raises THEN {<<"csv", c.ret>>} ELSE {})
                               \cup (IF json_called /\ ~ json_raises
                                     THEN {<<"json", j.ret>>} ELSE {})
               /\ output_dir' = IF json_called THEN j.dir ELSE dir1
               /\ saved' = IF json_called THEN j.files ELSE files1
               /\ raised' = IF csv_raises THEN "save_to_csv"
                            ELSE IF json_raises THEN "save_to_json"
                            ELSE raised
               /\ pc' = IF csv_raises \/ json_raises THEN "raise" ELSE "finished"
    /\ last_input' = <<>>
    /\ save_ret' = <<>>
    /\ view' = NoView
    /\ probes' = <<>>
    /\ UNCHANGED <<args, url, card, job, page, jobs, max_pages, current_page, all_jobs,
                   cookies_file, prompts, unrecognized, driver, runVars, configVars>>

\* __exit__ of the with block, on return, on the end of the block and on an
\* exception: close() quits the driver
Close ==
    /\ pc \in {"quit", "finished", "raise"}
    /\ driver = "open"
    /\ driver' = close(driver, quits).driver
    /\ quits' = close(driver, quits).quits
    /\ pc' = "done"
    /\ last_input' = <<>>
    /\ view' = NoView
    /\ probes' = <<>>
    /\ UNCHANGED <<args, url, card, job, page, jobs, max_pages, current_page, all_jobs,
                   cookies_file, save_ret, fail, prompts, unrecognized, raised, saved,
                   nav_ret, extracted, saveVars, configVars>>

Next ==
    \/ ManualNavigate
    \/ OperatorNavigates
    \/ NavPrompt
    \/ LoopEnd
    \/ MainExtract
    \/ HasNextPage
    \/ GoToNextPage
    \/ NextPrompt
    \/ SaveResults
    \/ Close

Spec == Init /\ [][Next]_vars

\* the steps the program takes by itself, every driver call returning
ProgramStep ==
    \/ ManualNavigate
    \/ LoopEnd
    \/ MainExtract
    \/ HasNextPage
    \/ GoToNextPage
    \/ SaveResults
    \/ Close

\* A run in which the program goes on while it can and a prompt that waits
\* gets a line; MaxPrompts bounds the lines a prompt does not know.
LiveSpec ==
    /\ Spec
    /\ WF_vars(ProgramStep)
    /\ WF_vars(NavPrompt)
    /\ WF_vars(NextPrompt)

\* ------------------------------------------ go_to_next_page, as a machine

\* a call of go_to_next_page on any page, in the first iteration of main's loop
InitNext ==
    /\ pc = "go_next"
    /\ args = ConfigArgs
    /\ url = <<>>
    /\ card = NoCard
    /\ job = <<>>
    /\ page \in MainPages
    /\ jobs = <<>>
    /\ view = NoView
    /\ probes = <<>>
    /\ max_pages = MaxPages
    /\ current_page = 0
    /\ all_jobs = <<>>
    /\ cookies_file = "absent"
    /\ save_ret = <<>>
    /\ fail = {}
    /\ last_input = <<>>
    /\ prompts = 0
    /\ unrecognized = "none"
    /\ raised = "none"
    /\ driver = "open"
    /\ saved = {}
    /\ nav_ret = <<TRUE>>
    /\ extracted = 1
    /\ quits = 0
    /\ output_dir = TRUE
    /\ enabled = {}
    /\ handed = {}
    /\ paths = {}
    /\ ConfigIdle

NextNext ==
    \/ GoToNextPage
    \/ NextPrompt

SpecNext == InitNext /\ [][NextNext]_vars

\* ------------------------------------------------- the savers, as a machine

\* longest list handed to a saver
MaxSaved == 2

\* the records of the sample cards that give one
SampleRecords == {extract_job_data(DomOf(c)).ret[1] :
                     c \in {c \in SampleCards : extract_job_data(DomOf(c)).ret # <<>>}}

\* the lists handed to a saver
SaveLists == UNION {[1..n -> SampleRecords] : n \in 0..MaxSaved}

\* the filename argument: omitted, or a name
Filenames == {Omitted, Given("jobs.out"), Given(DefaultCsv)}

\* A call of save_to_csv or save_to_json on a disk with or without the output
\* directory, or main at the end of its loop with the directory made.
InitSave ==
    /\ url = <<>>
    /\ card = NoCard
    /\ job = <<>>
    /\ page = BlankPage
    /\ jobs = <<>>
    /\ view = NoView
    /\ probes = <<>>
    /\ max_pages = 0
    /\ current_page = 0
    /\ all_jobs \in SaveLists
    /\ cookies_file = "absent"
    /\ save_ret = <<>>
    /\ fail = {}
    /\ last_input = <<>>
    /\ prompts = 0
    /\ unrecognized = "none"
    /\ raised = "none"
    /\ driver = "open"
    /\ nav_ret = <<>>
    /\ extracted = 0
    /\ quits = 0
    /\ enabled = {}
    /\ handed = {}
    /\ paths = {}
    /\ ConfigIdle
    /\ \/ /\ pc = "save_call"
          /\ args \in [kind : {"csv", "json"}, filename : Filenames]
          /\ output_dir \in BOOLEAN
          /\ saved \in SUBSET {PathOf("jobs.out"), PathOf(DefaultJson)}
          /\ saved # {} => output_dir
       \/ /\ pc = "save"
          /\ args = ConfigArgs
          /\ output_dir = TRUE
          /\ saved = {}

\* one call of save_to_csv or save_to_json
CallSave ==
    /\ pc = "save_call"
    /\ \E f \in WriteFails :
           LET r == IF args.kind = "csv"
                    THEN save_to_csv(all_jobs, args.filename, output_dir, saved, f)
                    ELSE save_to_json(all_jobs, args.filename, output_dir, saved, f)
           IN  /\ f # {} => r.raises
               /\ fail' = f
               /\ handed' = {<<args.kind, all_jobs>>}
               /\ paths' = IF r.raises THEN {} ELSE {<<args.kind, r.ret>>}
               /\ raised' = IF r.raises THEN "save_to_" \o args.kind ELSE raised
               /\ output_dir' = r.dir
               /\ saved' = r.files
    /\ pc' = "save_done"
    /\ UNCHANGED <<args, url, extractVars, max_pages, current_page, all_jobs, cookies_file,
                   save_ret, last_input, prompts, unrecognized, driver, enabled, runVars,
                   configVars>>

NextSave ==
    \/ CallSave
    \/ SaveResults

SpecSave == InitSave /\ [][NextSave]_vars

\* ------------------------------------------------- claims on the URL builder

\* the value of a decimal digit character
DigitValue(c) == CHOOSE d \in 0..9 : DigitChars[d + 1] = c

RECURSIVE ParseNat(_)
\* the number a non-empty digit text denotes
ParseNat(ds) ==
    IF Len(ds) = 1 THEN DigitValue(ds[1])
    ELSE ParseNat(SubSeq(ds, 1, Len(ds) - 1)) * 10 + DigitValue(ds[Len(ds)])

\* ds is the canonical decimal text of the natural number n
IsNatText(ds, n) ==
    /\ Len(ds) >= 1
    /\ \A i \in 1..Len(ds) : \E d \in 1..10 : DigitChars[d] = ds[i]
    /\ Len(ds) > 1 => ds[1] # "0"
    /\ ParseNat(ds) = n

\* ds is the decimal text of the integer n
IsIntText(ds, n) ==
    IF n < 0 THEN Len(ds) >= 2 /\ ds[1] = "-" /\ IsNatText(Tail(ds), 0 - n)
    ELSE IsNatText(ds, n)

\* s with each space turned into a plus, stated position by position
Plussed(s) == [i \in 1..Len(s) |-> IF s[i] = " " THEN "+" ELSE s[i]]

\* the part of the URL up to and including "&radius="
UrlHead == Flatten(<<UrlPrefix, Plussed(args.job_title), LocKey, Plussed(args.location),
                     RadiusKey>>)

\* the start and limit the call of args means
StartMeant == IF args.start = Omitted THEN 0 ELSE args.start[1]
LimitMeant == IF args.limit = Omitted THEN 15 ELSE args.limit[1]

\* u is "<radius>&limit=<limit>" followed by rest
IsRadiusLimitThen(u, rest) ==
    \E i \in 1..Len(u) : \E j \in (i + Len(LimitKey) + 1)..Len(u) :
        /\ IsIntText(SubSeq(u, 1, i), args.radius)
        /\ SubSeq(u, i + 1, i + Len(LimitKey)) = LimitKey
        /\ IsIntText(SubSeq(u, i + Len(LimitKey) + 1, j), LimitMeant)
        /\ SubSeq(u, j + 1, Len(u)) = rest

\* u is "&start=<n>" for some n >= 0
IsStartParam(u) ==
    /\ StartsWith(u, StartKey)
    /\ \E n \in 0..99 : IsNatText(SubSeq(u, Len(StartKey) + 1, Len(u)), n)

\* C1: build_indeed_url returns "https://de.indeed.com/jobs?q=<T>&l=<L>&radius=<radius>
\* &limit=<limit>", optionally followed by the start parameter, where <T> and <L>
\* are job_title and location with every space replaced by '+' and limit is 15
\* when omitted.
C1_UrlFormat ==
    pc = "url_done" =>
        /\ StartsWith(url, UrlHead)
        /\ LET u == SubSeq(url, Len(UrlHead) + 1, Len(url))
           IN  \/ IsRadiusLimitThen(u, <<>>)
               \/ \E k \in 1..Len(u) :
                      /\ IsStartParam(SubSeq(u, k, Len(u)))
                      /\ IsRadiusLimitThen(SubSeq(u, 1, k - 1), <<>>)

\* C1 witness: a title with a space, built with the limit omitted
C1_Witness ==
    /\ pc = "url_done"
    /\ args.job_title = SoftwareEngineer
    /\ args.limit = Omitted
    /\ EndsWith(url, LimitKey \o <<"1", "5">>)

\* C2: the pagination parameter is included exactly when start > 0: then the
\* URL ends with "&start=<start>" placed after the limit parameter; for start
\* omitted or start <= 0 nothing follows the limit parameter.
C2_StartParam ==
    pc = "url_done" =>
        LET u == SubSeq(url, Len(UrlHead) + 1, Len(url))
        IN  /\ StartsWith(url, UrlHead)
            /\ StartMeant > 0 =>
                   \E k \in 1..(Len(u) - Len(StartKey)) :
                       /\ SubSeq(u, k, k + Len(StartKey) - 1) = StartKey
                       /\ IsNatText(SubSeq(u, k + Len(StartKey), Len(u)), StartMeant)
                       /\ IsRadiusLimitThen(SubSeq(u, 1, k - 1), <<>>)
            /\ StartMeant <= 0 =>
                   /\ IsRadiusLimitThen(u, <<>>)
                   /\ ~ Contains(u, StartKey)

\* C2 witness: a call with start = 30 whose URL ends with the start parameter
C2_Witness ==
    /\ pc = "url_done"
    /\ args.start = Given(30)
    /\ args.limit = Given(20)
    /\ EndsWith(url, <<"=", "2", "0">> \o StartKey \o <<"3", "0">>)

\* the text of q's value and of l's value in the URL, cut out by position
QValue == SubSeq(url, Len(UrlPrefix) + 1, Len(UrlPrefix) + Len(args.job_title))
LValue ==
    SubSeq(url, Len(UrlPrefix) + Len(args.job_title) + Len(LocKey) + 1,
           Len(UrlPrefix) + Len(args.job_title) + Len(LocKey) + Len(args.location))

\* "C+++developer" and "Frankfurt+am+Main"
CppDeveloperQ == <<"C", "+", "+", "+", "d", "e", "v", "e", "l", "o", "p", "e", "r">>
FrankfurtAmMainL ==
    <<"F", "r", "a", "n", "k", "f", "u", "r", "t", "+", "a", "m", "+", "M", "a", "i", "n">>

\* C3: special characters pass through: every character of job_title and
\* location other than the space is copied unchanged (no percent-encoding, a
\* literal '+' stays '+'), the number of characters of both values is kept, and
\* "C++ developer" yields q=C+++developer.
C3_PassThrough ==
    pc = "url_done" =>
        /\ Len(url) >= Len(UrlPrefix) + Len(args.job_title) + Len(LocKey)
                           + Len(args.location) + Len(RadiusKey)
        /\ \A i \in 1..Len(args.job_title) :
               args.job_title[i] # " " => QValue[i] = args.job_title[i]
        /\ \A i \in 1..Len(args.location) :
               args.location[i] # " " => LValue[i] = args.location[i]
        /\ SubSeq(url, Len(UrlPrefix) + Len(args.job_title) + 1,
                  Len(UrlPrefix) + Len(args.job_title) + Len(LocKey)) = LocKey
        /\ SubSeq(url, Len(UrlPrefix) + Len(args.job_title) + Len(LocKey)
                           + Len(args.location) + 1,
                  Len(UrlPrefix) + Len(args.job_title) + Len(LocKey)
                           + Len(args.location) + Len(RadiusKey)) = RadiusKey
        /\ args.job_title = CppDeveloper => QValue = CppDeveloperQ
        /\ args.location = FrankfurtAmMain => LValue = FrankfurtAmMainL

\* C3 witness: the tests' "C++ developer" in "Frankfurt am Main"
C3_Witness ==
    /\ pc = "url_done"
    /\ args.job_title = CppDeveloper
    /\ args.location = FrankfurtAmMain
    /\ StartsWith(url, UrlPrefix \o CppDeveloperQ \o LocKey \o FrankfurtAmMainL)

\* ------------------------------------------------ claims on the extraction

\* the characters of the texts of this model
AllChars ==
    {UpperChars[i] : i \in 1..26} \cup {LowerChars[i] : i \in 1..26}
        \cup {DigitChars[i] : i \in 1..10}
        \cup {" ", "\t", "\n", "+", "&", "=", "?", "/", "-", ".", ":", "%"}

\* v is a text: a finite sequence of characters
IsText(v) == DOMAIN v = 1..Len(v) /\ \A i \in 1..Len(v) : v[i] \in AllChars

\* jb is a record with the eight fields, each a text
IsJobRecord(jb) == DOMAIN jb = JobFields /\ \A k \in JobFields : IsText(jb[k])

\* the answers of the driver for the selectors of field f on the card
AnswersFor(f) == [i \in 1..Len(SelectorsOf(f)) |-> card[SelectorsOf(f)[i]]]

\* no selector of field f finds an element on the card
NothingFound(f) == \A i \in 1..Len(SelectorsOf(f)) : AnswersFor(f)[i].kind = "none"

\* the first selector of field f that does not answer NoSuchElementException
\* does not give a value: the driver fails on it, or it finds a link without href
Breaks(f) ==
    \E i \in 1..Len(SelectorsOf(f)) :
        /\ \A j \in 1..(i - 1) : AnswersFor(f)[j].kind = "none"
        /\ \/ AnswersFor(f)[i].kind = "error"
           \/ f = "url" /\ AnswersFor(f)[i].kind = "elem" /\ AnswersFor(f)[i].href = NoAttribute

\* the extraction of field f gives no value of the page
FieldFails(f) == NothingFound(f) \/ Breaks(f)

FieldSet == {FieldOrder[k] : k \in 1..Len(FieldOrder)}

\* C4: every record _extract_job_data produces has the eight fields, each a
\* string, and when the extraction of a field fails the record is still produced
\* with that field set to its sentinel. This is the claim as stated: it fails
\* when the failure is a driver error other than NoSuchElementException.
C4_AsStated ==
    pc = "card_done" =>
        /\ job # <<>> => IsJobRecord(job[1])
        /\ \A f \in FieldSet :
               FieldFails(f) => job # <<>> /\ job[1][f] = SentinelOf(f)

\* C4, amended: every record produced has the eight fields, each a string; a
\* field none of whose selectors finds an element gets its sentinel (job_id
\* "unknown" with url "Not available"); the record is produced unless a probe
\* raises another driver error or the link found has no href, and then the
\* result is None.
C4_RecordShape ==
    pc = "card_done" =>
        /\ job # <<>> => IsJobRecord(job[1])
        /\ job # <<>> =>
               \A f \in FieldSet :
                   NothingFound(f) =>
                       /\ job[1][f] = SentinelOf(f)
                       /\ f = "url" => job[1]["job_id"] = SentinelOf("job_id")
        /\ job = <<>> <=> \E f \in FieldSet : Breaks(f)

\* C4 witness: a record produced for a card with no company element
C4_Witness ==
    /\ pc = "card_done"
    /\ job # <<>>
    /\ NothingFound("company")
    /\ ~ NothingFound("title")
    /\ job[1]["company"] = CompanyNotFound

\* the selectors of field f among those probed, in the order probed
ProbedFor(f) ==
    LET OfField(sel) == \E i \in 1..Len(SelectorsOf(f)) : SelectorsOf(f)[i] = sel
    IN  SelectSeq(probes, OfField)

\* field f is reached: no earlier field ends the extraction
Reached(f) ==
    \A k \in 1..Len(FieldOrder) :
        (\E n \in (k + 1)..Len(FieldOrder) : FieldOrder[n] = f) => ~ Breaks(FieldOrder[k])

\* selector number m is the first of field f that finds an element
FirstMatch(f, m) ==
    /\ AnswersFor(f)[m].kind = "elem"
    /\ \A j \in 1..(m - 1) : AnswersFor(f)[j].kind = "none"

\* job-card selector number m is the first that yields a non-empty list
FirstCardMatch(m) ==
    /\ view[CardSelectors[m]].kind = "list" /\ view[CardSelectors[m]].elems # <<>>
    /\ \A j \in 1..(m - 1) :
           view[CardSelectors[j]].kind = "error" \/ view[CardSelectors[j]].elems = <<>>

\* the records of the cards in list l that give one, in the order of l
RecordsOf(l) ==
    LET Gives(c) == extract_job_data(DomOf(c)).ret # <<>>
        kept == SelectSeq(l, Gives)
    IN  [i \in 1..Len(kept) |-> extract_job_data(DomOf(kept[i])).ret[1]]

\* C10: selector lists are tried in order and the first match wins: for each
\* field of a record and for the job cards the selectors are probed in list
\* order, the value comes from the first selector that finds an element (for the
\* cards: the first that yields a non-empty list), no later selector is probed
\* after a match, and the sentinel or the empty result is used only when no
\* selector of the list matches.
C10_FirstMatchWins ==
    /\ pc = "card_done" =>
           \A f \in FieldSet :
               Reached(f) =>
                   /\ \A m \in 1..Len(SelectorsOf(f)) :
                          FirstMatch(f, m) =>
                              /\ ProbedFor(f) = SubSeq(SelectorsOf(f), 1, m)
                              /\ job # <<>> =>
                                     job[1][f] = IF f = "url" THEN AnswersFor(f)[m].href
                                                 ELSE Strip(AnswersFor(f)[m].text)
                   /\ NothingFound(f) => ProbedFor(f) = SelectorsOf(f)
                   /\ job # <<>> => (job[1][f] = SentinelOf(f) <=> NothingFound(f))
    /\ pc = "extract_done" =>
           /\ \A m \in 1..Len(CardSelectors) :
                  FirstCardMatch(m) =>
                      /\ probes = SubSeq(CardSelectors, 1, m)
                      /\ jobs = RecordsOf(view[CardSelectors[m]].elems)
           /\ (~ \E m \in 1..Len(CardSelectors) : FirstCardMatch(m)) =>
                  probes = CardSelectors /\ jobs = <<>>

\* C10 witness: the title comes from the third selector although the fourth
\* matches too
C10_Witness ==
    /\ pc = "card_done"
    /\ FirstMatch("title", 3)
    /\ AnswersFor("title")[4].kind = "elem"
    /\ job # <<>>
    /\ job[1]["title"] = <<"3">>
    /\ ProbedFor("title") = SubSeq(title_selectors, 1, 3)

\* --------------------------------------------------- claims on a run of main

\* a and b are the same letter, in either case
SameLetter(a, b) ==
    a = b \/ \E k \in 1..26 : {a, b} = {LowerChars[k], UpperChars[k]}

\* line is word in any case, with nothing but whitespace around it
IsCommand(line, word) ==
    \E i \in 0..Len(line) :
        /\ i + Len(word) <= Len(line)
        /\ \A k \in 1..i : line[k] \in Whitespace
        /\ \A k \in 1..Len(word) : SameLetter(line[i + k], word[k])
        /\ \A k \in (i + Len(word) + 1)..Len(line) : line[k] \in Whitespace

\* what the program holds besides its position: the browser's page, the cookie
\* file, the records, the page counter, the driver and the files written
ProgramState ==
    <<url, page, cookies_file, jobs, all_jobs, max_pages, current_page, raised, driver, saved>>

\* the driver calls of the checks of manual_navigate
NavCheckCalls == CardSelectorSet \cup {"challenge", "overlay"}

\* C5: as stated, no failure of the browser driver in manual_navigate,
\* extract_job_listings, has_next_page or go_to_next_page, the page load at the
\* start of manual_navigate included, reaches main as an exception.
C5_NeverPropagates ==
    raised \notin {"manual_navigate", "extract_job_listings", "has_next_page", "go_to_next_page"}

\* C6, as stated: whenever no job-card selector matches the current page, after
\* the initial navigation, at extraction or after moving to the next page, the
\* run is at an operator prompt before it proceeds or stops.
C6_AsStated == unrecognized # "none" => pc \in {"nav_prompt", "next_prompt"}

\* C6: when no job-card selector matches the page after the initial navigation
\* or after the click on the next-page button, the run is at the operator
\* prompt of that operation; when none matches at extraction, no prompt is
\* made: the extraction returns no records and the run goes to its end, the
\* saving of the earlier pages' records (which may raise) and the close.
C6_PromptWhenUnrecognized ==
    /\ unrecognized = "navigate" => pc = "nav_prompt"
    /\ unrecognized = "next" => pc = "next_prompt"
    /\ unrecognized = "extract" =>
           /\ pc \in {"save", "finished", "raise", "done"}
           /\ pc = "raise" => raised \in {"save_to_csv", "save_to_json"}
           /\ jobs = <<>>

\* after a first page of records, the next page matches no job-card selector
\* and the operator is asked
C6_Witness ==
    /\ unrecognized = "next"
    /\ pc = "next_prompt"
    /\ all_jobs # <<>>
    /\ PageUnrecognized(page)

\* C7, as stated: manual_navigate returns True with no prompt exactly when a
\* job-card selector matches, no challenge element and no overlay element is
\* on the page and no driver call of these checks raised; in every other case
\* it is at the prompt.
C7_AsStated ==
    [][pc = "navigate" /\ pc' \in {"extract", "nav_prompt"} =>
         (pc' = "extract" <=>
             /\ \E sel \in CardSelectorSet : page'.cards[sel] # <<>>
             /\ ~ page'.challenge
             /\ ~ page'.overlay
             /\ fail' \cap NavCheckCalls = {})]_vars

\* C7: manual_navigate returns True with no prompt exactly when a job-card
\* probe that did not raise finds cards, the challenge probes did not raise and
\* found nothing, and the overlay probe raised or found nothing; in every other
\* case it is at the prompt.
C7_ProceedsExactlyWhen ==
    [][pc = "navigate" /\ pc' \in {"extract", "nav_prompt"} =>
         (pc' = "extract" <=>
             /\ \E sel \in CardSelectorSet \ fail' : page'.cards[sel] # <<>>
             /\ "challenge" \notin fail'
             /\ ~ page'.challenge
             /\ ~ (page'.overlay /\ "overlay" \notin fail'))]_vars

\* manual_navigate has returned True with no prompt on a page with an overlay,
\* the overlay probe having raised
C7_Witness ==
    /\ pc = "extract"
    /\ current_page = 0
    /\ last_input = <<>>
    /\ "overlay" \in fail
    /\ page.overlay

\* C8: the prompt of manual_navigate is left only by a line read; a line that
\* is 'done' or 'save' in any case, whitespace around it ignored, makes it
\* return True, one that is 'quit' makes it return False, and any other line
\* leaves it at the prompt with the program's state unchanged.
C8_PromptLoop ==
    [][pc = "nav_prompt" =>
         /\ pc' # "nav_prompt" => last_input' # <<>>
         /\ last_input' # <<>> =>
                LET line == last_input'[1]
                    done_or_save == IsCommand(line, Done) \/ IsCommand(line, Save)
                    quit == IsCommand(line, Quit)
                IN  /\ pc' = "extract" <=> done_or_save
                    /\ pc' = "quit" <=> quit
                    /\ ~ done_or_save /\ ~ quit =>
                           pc' = "nav_prompt" /\ UNCHANGED ProgramState]_vars

\* manual_navigate has returned False on 'QUIT'
C8_Witness ==
    /\ pc = "quit"
    /\ last_input = <<<<"Q", "U", "I", "T">>>>
    /\ driver = "open"

\* C9: the cookie file changes only in a step of the manual_navigate prompt
\* that read 'save'; a save in which a call raised returns False and
\* manual_navigate returns True as for 'done'.
C9_CookieFile ==
    [][/\ cookies_file' # cookies_file =>
              /\ pc = "nav_prompt"
              /\ last_input' # <<>>
              /\ IsCommand(last_input'[1], Save)
       /\ pc = "nav_prompt" /\ last_input' # <<>> /\ IsCommand(last_input'[1], Save) =>
              /\ save_ret' = <<fail' = {}>>
              /\ pc' = "extract"
              /\ fail' = {} => cookies_file' = "new"
       /\ pc = "nav_prompt" /\ last_input' # <<>> /\ ~ IsCommand(last_input'[1], Save) =>
              save_ret' = <<>>]_vars

\* a save that failed while writing: False returned, the run goes on
C9_Witness ==
    /\ pc = "extract"
    /\ save_ret = <<FALSE>>
    /\ cookies_file = "partial"
    /\ last_input = <<<<"\t", "S", "A", "V", "E", " ">>>>

\* ------------------------------------------ claims on the order of a run

\* the positions of main inside its pagination loop
LoopPositions == {"extract", "has_next", "go_next", "next_prompt"}

\* C11: extract_job_listings is called only after manual_navigate has returned
\* True, the savers are called only once the pagination loop has ended, and
\* after manual_navigate has returned False main returns with nothing
\* extracted, no saver called and no file written.
C11_LinearOrder ==
    /\ pc \in {"navigate", "nav_prompt"} => nav_ret = <<>> /\ extracted = 0
    /\ extracted > 0 \/ pc \in LoopPositions \cup {"save", "finished"} => nav_ret = <<TRUE>>
    /\ handed # {} => pc \in {"finished", "raise", "done"}
    /\ nav_ret = <<FALSE>> =>
           /\ pc \in {"quit", "done"}
           /\ extracted = 0
           /\ all_jobs = <<>>
           /\ handed = {}
           /\ saved = {}

\* the operator has quit at the first prompt and main has returned
C11_Witness ==
    /\ nav_ret = <<FALSE>>
    /\ pc = "done"
    /\ extracted = 0
    /\ saved = {}

\* C12: extract_job_listings is called at most max_pages times in a run, and
\* never when max_pages <= 0.
C12_MaxPages == extracted <= (IF max_pages > 0 THEN max_pages ELSE 0)

\* a run that has extracted max_pages pages, more than one, and left the loop
C12_Witness ==
    /\ max_pages > 1
    /\ extracted = max_pages
    /\ current_page = max_pages
    /\ pc = "save"

\* a is an initial part of b
IsPrefix(a, b) == Len(a) <= Len(b) /\ SubSeq(b, 1, Len(a)) = a

\* C13: the list of the run only grows, by the records of the page just
\* extracted appended in their order; each saver called is handed the whole
\* list, and when main gets through its savers every enabled one was called.
C13_AppendOnly ==
    /\ [](/\ \A h \in handed : h[2] = all_jobs
          /\ pc = "finished" => {h[1] : h \in handed} = enabled)
    /\ [][/\ IsPrefix(all_jobs, all_jobs')
          /\ all_jobs' # all_jobs => pc = "extract" /\ all_jobs' = all_jobs \o jobs']_vars

\* the records of two pages handed to both savers
C13_Witness ==
    /\ pc = "finished"
    /\ extracted = 2
    /\ Len(all_jobs) = 2
    /\ enabled = {"csv", "json"}
    /\ handed = {<<"csv", all_jobs>>, <<"json", all_jobs>>}

\* --------------------------------------------------- claims on the savers

\* C14: a saver handed an empty list leaves the files and the output
\* directory as they are and returns None; handed a non-empty list it writes
\* one file under output/, the one named when a name is given, and returns its
\* path (its write not raising); main with no job collected writes no file
\* whichever outputs are enabled.
C14_Savers ==
    [][/\ pc = "save_call" /\ raised' = "none" =>
              IF all_jobs = <<>>
              THEN /\ saved' = saved
                   /\ output_dir' = output_dir
                   /\ paths' = {<<args.kind, <<>>>>}
              ELSE \E path \in saved' :
                       /\ path.dir = "output"
                       /\ args.filename # Omitted => path.name = args.filename[1]
                       /\ saved' = saved \cup {path}
                       /\ paths' = {<<args.kind, <<path>>>>}
                       /\ output_dir'
       /\ pc = "save" /\ all_jobs = <<>> =>
              /\ pc' = "finished"
              /\ saved' = saved
              /\ \A h \in paths' : h[2] = <<>>]_vars

\* a saver has returned None on an empty list, with no output directory made
C14_Witness ==
    /\ pc = "save_done"
    /\ all_jobs = <<>>
    /\ ~ output_dir
    /\ paths = {<<"csv", <<>>>>}

\* ------------------------------------- claims on the session and the pages

\* C15: the session is closed by one driver.quit() on every way out of the
\* with block (the operator's quit, the end of the block, an exception), it is
\* open until then, and no step of the run is taken after it is closed.
C15_ClosedOnce ==
    /\ [](/\ quits <= 1
          /\ driver = "closed" <=> quits = 1
          /\ pc = "done" <=> driver = "closed"
          /\ pc \in {"quit", "finished", "raise"} => ENABLED Close)
    /\ [][driver = "open"]_vars

\* main left by an exception of a saver, the session closed once
C15_Witness ==
    /\ pc = "done"
    /\ raised = "save_to_csv"
    /\ driver = "closed"
    /\ quits = 1

\* a job-card probe that did not raise (f: the calls that raised) finds cards on p
CardsFound(p, f) == \E sel \in CardSelectorSet \ f : p.cards[sel] # <<>>

\* go_to_next_page finds no next button on p, no probe for it raising
NoNextButton(p, f) == ~ p.next /\ "next" \notin f

\* go_to_next_page clicks the next button of p, directly or by the fallback
NextClicked(p, f) ==
    /\ p.next
    /\ "next" \notin f
    /\ "scroll" \notin f
    /\ ~ ({"click", "js_click"} \subseteq f)

\* C16, as stated: go_to_next_page is at its prompt before it returns whenever
\* _handle_cookie_consent returned False, and whenever no job cards are found
\* after the click.
C16_AsStated ==
    [][pc = "go_next" =>
         /\ ~ handle_cookie_consent(page, fail') => pc' = "next_prompt"
         /\ NextClicked(page, fail') /\ ~ CardsFound(page', fail') => pc' = "next_prompt"]_vars

C18_Terminates ==
    /\ <>(pc = "done")
    /\ [](current_page <= (IF max_pages > 0 THEN max_pages ELSE 0))
    /\ [][/\ current_page' \in {current_page, current_page + 1}
          /\ pc \in {"go_next", "next_prompt"} /\ pc' = "extract" =>
                 current_page' = current_page + 1]_vars

\* a run through max_pages pages, more than one, has ended
C18_Witness ==
    /\ pc = "done"
    /\ max_pages > 1
    /\ current_page = max_pages
    /\ raised = "none"

\* ------------------------------------------- the configuration of a run

\* the number a run of digits spells, after the digits read so far gave acc
RECURSIVE DigitsToNat(_, _)
DigitsToNat(s, acc) ==
    IF s = <<>> THEN acc
    ELSE DigitsToNat(Tail(s), 10 * acc + (CHOOSE d \in 0..9 : DigitChars[d + 1] = Head(s)))

\* int(s): the number when s, without the whitespace around it, is an optional
\* sign and digits; Omitted for the ValueError
int(s) ==
    LET t == Strip(s)
        signed == t # <<>> /\ Head(t) \in {"-", "+"}
        digits == IF signed THEN Tail(t) ELSE t
        IsDigits == /\ digits # <<>>
                    /\ \A i \in 1..Len(digits) : \E d \in 1..10 : DigitChars[d] = digits[i]
    IN  IF ~ IsDigits THEN Omitted
        ELSE IF signed /\ Head(t) = "-" THEN Given(0 - DigitsToNat(digits, 0))
        ELSE Given(DigitsToNat(digits, 0))

\* clean_value: a text with a '#' is cut before it and stripped, any other
\* value is returned as it is
clean_value(value) ==
    IF value # <<>> /\ Contains(value, <<"#">>) THEN Strip(BeforeFirst(value, <<"#">>))
    ELSE value

True == <<"T", "r", "u", "e">>
TwentyFive == <<"2", "5">>
Five == <<"5">>

\* get_config(): the dict built from the environment env (a name that is not
\* set is Omitted), or the ValueError of an int() that does not parse
get_config(env) ==
    LET radius == int(clean_value(ArgOr(env.RADIUS, TwentyFive)))
        pages == int(clean_value(ArgOr(env.MAX_PAGES, Five)))
    IN  IF radius = Omitted \/ pages = Omitted THEN [raises |-> TRUE, config |-> <<>>]
        ELSE [raises |-> FALSE,
              config |-> [job_title |-> ArgOr(env.JOB_TITLE, SoftwareEngineer),
                          location |-> ArgOr(env.LOCATION, Berlin),
                          radius |-> radius[1],
                          max_pages |-> pages[1],
                          output_csv |->
                              Lower(clean_value(ArgOr(env.OUTPUT_CSV, True))) = Lower(True),
                          output_json |->
                              Lower(clean_value(ArgOr(env.OUTPUT_JSON, True))) = Lower(True)]]

\* Python's truth value of an optional text: None and "" are false
TextTruthy(a) == a # Omitted /\ a[1] # <<>>

\* Python's truth value of an optional int: None and 0 are false
IntTruthy(a) == a # Omitted /\ a[1] # 0

\* the overrides of main: "if args.x: config['x'] = args.x" for the four
\* values, "if args.output_x: config['output_x'] = True" for the two flags
override(a, c) ==
    [job_title |-> IF TextTruthy(a.job_title) THEN a.job_title[1] ELSE c.job_title,
     location |-> IF TextTruthy(a.location) THEN a.location[1] ELSE c.location,
     radius |-> IF IntTruthy(a.radius) THEN a.radius[1] ELSE c.radius,
     max_pages |-> IF IntTruthy(a.max_pages) THEN a.max_pages[1] ELSE c.max_pages,
     output_csv |-> IF a.output_csv THEN TRUE ELSE c.output_csv,
     output_json |-> IF a.output_json THEN TRUE ELSE c.output_json]

\* what parse_arguments returns: None for an option that is not given, False
\* for a flag that is not given
Namespaces ==
    [job_title : {Omitted, Given(<<>>), Given(<<"q", "a">>)},
     location : {Omitted, Given(<<>>)},
     radius : {Omitted, Given(0), Given(2)},
     max_pages : {Omitted, Given(0), Given(2)},
     output_csv : BOOLEAN, output_json : BOOLEAN]

\* the environments of the runs: each name unset or set
Environments ==
    [JOB_TITLE : {Omitted, Given(<<"d", "e", "v">>)},
     LOCATION : {Omitted},
     RADIUS : {Omitted, Given(<<"1", "0", " ", "#", "k", "m">>)},
     MAX_PAGES : {Omitted, Given(<<"3">>), Given(<<"a", "l", "l">>)},
     OUTPUT_CSV : {Omitted, Given(<<"f", "a", "l", "s", "e">>)},
     OUTPUT_JSON : {Omitted, Given(<<"T", "R", "U", "E", " ", "#", "o", "n">>),
                    Given(<<"n", "o">>)}]

\* main before its first statement, with a command line and an environment
InitConfig ==
    /\ pc = "main"
    /\ args \in Environments
    /\ cli \in Namespaces
    /\ config = <<>>
    /\ url = <<>>
    /\ card = NoCard
    /\ job = <<>>
    /\ page = BlankPage
    /\ jobs = <<>>
    /\ view = NoView
    /\ probes = <<>>
    /\ max_pages = 0
    /\ current_page = 0
    /\ all_jobs = <<>>
    /\ cookies_file = "absent"
    /\ save_ret = <<>>
    /\ fail = {}
    /\ last_input = <<>>
    /\ prompts = 0
    /\ unrecognized = "none"
    /\ raised = "none"
    /\ driver = "open"
    /\ saved = {}
    /\ nav_ret = <<>>
    /\ extracted = 0
    /\ quits = 0
    /\ output_dir = FALSE
    /\ enabled = {}
    /\ handed = {}
    /\ paths = {}

\* config = get_config(), the ValueError of a number that does not parse
\* leaving main
GetConfig ==
    /\ pc = "main"
    /\ LET r == get_config(args)
       IN  IF r.raises
           THEN /\ pc' = "raise"
                /\ raised' = "get_config"
                /\ UNCHANGED config
           ELSE /\ pc' = "override"
                /\ config' = r.config
                /\ UNCHANGED raised
    /\ UNCHANGED <<args, url, extractVars, max_pages, current_page, all_jobs, cookies_file,
                   save_ret, fail, last_input, prompts, unrecognized, driver, saved,
                   runVars, saveVars, cli>>

\* the six overrides, and output_dir.mkdir(exist_ok=True); the loop will test
\* config['max_pages']
Override ==
    /\ pc = "override"
    /\ config' = override(cli, config)
    /\ max_pages' = config'.max_pages
    /\ output_dir' = TRUE
    /\ pc' = "configured"
    /\ UNCHANGED <<args, url, extractVars, current_page, all_jobs, cookies_file,
                   save_ret, fail, last_input, prompts, unrecognized, raised, driver, saved,
                   runVars, enabled, handed, paths, cli>>

NextConfig == GetConfig \/ Override

SpecConfig == InitConfig /\ [][NextConfig]_vars

\* C19: when main has applied its overrides, each of job_title, location,
\* radius and max_pages equals the command-line argument if one was given, with
\* any value (0 and the empty string too), and the get_config value otherwise;
\* an output flag of the command line only switches its output on.
C19_Overrides ==
    pc = "configured" =>
        LET c == get_config(args).config
        IN  /\ config.job_title = ArgOr(cli.job_title, c.job_title)
            /\ config.location = ArgOr(cli.location, c.location)
            /\ config.radius = ArgOr(cli.radius, c.radius)
            /\ config.max_pages = ArgOr(cli.max_pages, c.max_pages)
            /\ config.output_csv = (cli.output_csv \/ c.output_csv)
            /\ config.output_json = (cli.output_json \/ c.output_json)

\* what does hold: an argument replaces the get_config value exactly when its
\* value is true in Python's sense, so --radius 0, --max-pages 0 and an empty
\* --job-title or --location leave the get_config value in place
C19_TruthyOverrides ==
    pc = "configured" =>
        LET c == get_config(args).config
        IN  /\ config.job_title = (IF cli.job_title \in {Omitted, Given(<<>>)}
                                   THEN c.job_title ELSE cli.job_title[1])
            /\ config.location = (IF cli.location \in {Omitted, Given(<<>>)}
                                  THEN c.location ELSE cli.location[1])
            /\ config.radius = (IF cli.radius \in {Omitted, Given(0)}
                                THEN c.radius ELSE cli.radius[1])
            /\ config.max_pages = (IF cli.max_pages \in {Omitted, Given(0)}
                                   THEN c.max_pages ELSE cli.max_pages[1])
            /\ config.output_csv = (cli.output_csv \/ c.output_csv)
            /\ config.output_json = (cli.output_json \/ c.output_json)

\* --max-pages 0 given with MAX_PAGES unset: the run keeps the 5 of get_config
C19_ZeroIgnored ==
    /\ pc = "configured"
    /\ cli.max_pages = Given(0)
    /\ args.MAX_PAGES = Omitted
    /\ config.max_pages = 5

\* ------------------------------------------- claims on extract_job_listings

\* the card elements extract_job_listings got from the driver: the list of the
\* first selector whose find_elements call returned a non-empty one
CardsGot ==
    IF \E m \in 1..Len(CardSelectors) : FirstCardMatch(m)
    THEN view[CardSelectors[CHOOSE m \in 1..Len(CardSelectors) : FirstCardMatch(m)]].elems
    ELSE <<>>

\* the positions in CardsGot of the cards _extract_job_data gives a record for
Succeeded == {k \in 1..Len(CardsGot) : extract_job_data(DomOf(CardsGot[k])).ret # <<>>}

\* C20: extract_job_listings returns one record per job card whose extraction
\* succeeded, in the order of the cards; a card that fails or gives no record
\* is skipped and the records of the others are what they are without it; the
\* result is empty when no selector finds a card or the driver's calls fail;
\* the call leaves the browser on its page.
C20_Listings ==
    /\ [](pc = "extract_done" =>
            /\ Len(jobs) = Cardinality(Succeeded)
            /\ \A k \in Succeeded :
                   jobs[Cardinality({j \in Succeeded : j <= k})]
                       = extract_job_data(DomOf(CardsGot[k])).ret[1]
            /\ (\A sel \in DOMAIN view : view[sel].kind = "error" \/ view[sel].elems = <<>>)
                   => jobs = <<>>)
    /\ [][pc = "extract_call" => page' = page]_vars

\* C20 witness: the first of two cards is stale and gives no record, the
\* second gives the only record returned
C20_Witness ==
    /\ pc = "extract_done"
    /\ Len(CardsGot) = 2
    /\ Succeeded = {2}
    /\ jobs = <<extract_job_data(DomOf(CardsGot[2])).ret[1]>>
    /\ page.cards # BlankPage.cards

====
